---- MODULE Spec2Model ----
(***************************************************************************)
(* Model of src/helpers.py: the train/validation split, the eval loop,     *)
(* the train loop with checkpointing and early stopping, and the matching  *)
(* of ddG tables with residue environments.                                *)
(*                                                                         *)
(* Text (str) values are modelled as sequences of one-character strings,   *)
(* floating-point losses as integers (only their order matters), and an    *)
(* accuracy as the pair <<number correct, number compared>>.               *)
(***************************************************************************)
EXTENDS Integers, Sequences, FiniteSets, TLC

\* ------------------------------------------------------------------------
\* Bounds of the model
\* ------------------------------------------------------------------------
MaxEpochs == 4
MaxCutoff == 2
MaxLoss == 2
MaxPdbs == 3
SplitDen == 4
MaxSplitNum == 6
MaxResidues == 3
MaxBatch == 3
MaxClass == 1
MaxRows == 2

\* ------------------------------------------------------------------------
\* Program constants
\* ------------------------------------------------------------------------
\* current_best_loss_val = 1e4
BestLossInit == 10000
\* current_best_epoch_idx = -1
NoEpoch == -1

VARIABLES
    \* _train_loop
    EPOCHS, PATIENCE_CUTOFF, epoch, loss_val, val_losses,
    current_best_epoch_idx, current_best_loss_val, patience,
    epoch_idx_to_model_path, saved_files, early_stopped,
    best_model_path, pc,
    \* _train_val_split
    parsed_pdb_filenames, TRAIN_VAL_SPLIT, n_train_pdbs,
    filenames_train, filenames_val, pc_split,
    \* _eval_loop
    val_labels, BATCH_SIZE, batches_left, labels_true_val, labels_pred_val,
    loss_batch_list_val, acc_val, loss_val_mean, pc_eval,
    \* _populate_dfs_with_resenvs
    ddg_data_in, ddg_data_keys, ddg_data_dict, resenv_datasets_look_up,
    ddg_pos, resenvs_ddg_data, n_datapoints_before, n_datapoints_after,
    pc_ddg

trainVars == <<EPOCHS, PATIENCE_CUTOFF, epoch, loss_val, val_losses,
               current_best_epoch_idx, current_best_loss_val, patience,
               epoch_idx_to_model_path, saved_files, early_stopped,
               best_model_path, pc>>

splitVars == <<parsed_pdb_filenames, TRAIN_VAL_SPLIT, n_train_pdbs,
               filenames_train, filenames_val, pc_split>>

evalVars == <<val_labels, BATCH_SIZE, batches_left, labels_true_val,
              labels_pred_val, loss_batch_list_val, acc_val, loss_val_mean,
              pc_eval>>

ddgVars == <<ddg_data_in, ddg_data_keys, ddg_data_dict,
             resenv_datasets_look_up, ddg_pos, resenvs_ddg_data,
             n_datapoints_before, n_datapoints_after, pc_ddg>>

vars == <<trainVars, splitVars, evalVars, ddgVars>>

\* ------------------------------------------------------------------------
\* Generic helpers
\* ------------------------------------------------------------------------
Range(s) == {s[i] : i \in DOMAIN s}

Min(S) == CHOOSE x \in S : \A y \in S : x <= y

\* int(x) of the quotient a / b (b > 0): truncation toward zero
TruncDiv(a, b) == IF a >= 0 THEN a \div b ELSE -((-a) \div b)

\* the position a Python slice bound n denotes in a list of length len
SliceBound(n, len) ==
    LET k == IF n < 0 THEN n + len ELSE n
    IN  IF k < 0 THEN 0 ELSE IF k > len THEN len ELSE k

\* lst[:n]
SliceTo(lst, n) == SubSeq(lst, 1, SliceBound(n, Len(lst)))

\* lst[n:]
SliceFrom(lst, n) == SubSeq(lst, SliceBound(n, Len(lst)) + 1, Len(lst))

\* lst[a:b]
Slice(lst, a, b) ==
    SubSeq(lst, SliceBound(a, Len(lst)) + 1, SliceBound(b, Len(lst)))

\* sub in s, for two texts
IsSubstring(sub, s) ==
    \E i \in 0..(Len(s) - Len(sub)) : SubSeq(s, i + 1, i + Len(sub)) = sub

\* all sequences over S of length at most n
SeqsUpTo(S, n) == UNION {[1..k -> S] : k \in 0..n}

RECURSIVE Flatten(_)
Flatten(ss) == IF ss = <<>> THEN <<>> ELSE Head(ss) \o Flatten(Tail(ss))

RECURSIVE Sum(_)
Sum(s) == IF s = <<>> THEN 0 ELSE Head(s) + Sum(Tail(s))

\* ------------------------------------------------------------------------
\* _train_loop
\* ------------------------------------------------------------------------
\* The validation losses _eval_loop may return: ordinary ones, and ones
\* that are not below the initial value of current_best_loss_val.
LossValues == (1..MaxLoss) \cup {BestLossInit, BestLossInit + 1}

\* f"{epoch:02d}": decimal digits, zero-padded to a width of at least two
RECURSIVE Digits(_)
Digits(n) == IF n < 10 THEN <<n>> ELSE Digits(n \div 10) \o <<n % 10>>

Format02d(n) == IF n < 10 THEN <<0, n>> ELSE Digits(n)

\* model_path = f"cavity_models/model_epoch_{epoch:02d}.pt"
ModelPath(e) == <<"cavity_models/model_epoch_">> \o Format02d(e) \o <<".pt">>

\* a map that keeps only the latest checkpoint
RecordCheckpointLatestOnly(map, e, path) == [k \in {e} |-> path]

\* epoch_idx_to_model_path[epoch] = model_path
RecordCheckpoint(map, e, path) ==
    [k \in (DOMAIN map) \cup {e} |-> IF k = e THEN path ELSE map[k]]

\* the comparison inverted
ImprovesInverted(loss, best) == loss > best

\* if loss_val < current_best_loss_val
Improves(loss, best) == loss < best

\* the comparison off by one
PatienceExceededOffByOne(p, cutoff) == p >= cutoff

\* if patience > PATIENCE_CUTOFF
PatienceExceeded(p, cutoff) == p > cutoff

\* a lookup that yields a default instead of raising (dict.get)
DictLookupDefault(map, key) ==
    [raised |-> FALSE, value |-> IF key \in DOMAIN map THEN map[key] ELSE <<>>]

\* epoch_idx_to_model_path[current_best_epoch_idx]; a missing key raises
DictLookup(map, key) ==
    IF key \in DOMAIN map THEN [raised |-> FALSE, value |-> map[key]]
    ELSE [raised |-> TRUE, value |-> <<>>]

IdleTrain ==
    /\ EPOCHS = 0
    /\ PATIENCE_CUTOFF = 0
    /\ epoch = NoEpoch
    /\ loss_val = 0
    /\ val_losses = <<>>
    /\ current_best_epoch_idx = NoEpoch
    /\ current_best_loss_val = BestLossInit
    /\ patience = 0
    /\ epoch_idx_to_model_path = <<>>
    /\ saved_files = {}
    /\ early_stopped = FALSE
    /\ best_model_path = <<>>
    /\ pc = "idle"

IdleSplit ==
    /\ parsed_pdb_filenames = <<>>
    /\ TRAIN_VAL_SPLIT = 0
    /\ n_train_pdbs = 0
    /\ filenames_train = <<>>
    /\ filenames_val = <<>>
    /\ pc_split = "idle"

IdleEval ==
    /\ val_labels = <<>>
    /\ BATCH_SIZE = 1
    /\ batches_left = <<>>
    /\ labels_true_val = <<>>
    /\ labels_pred_val = <<>>
    /\ loss_batch_list_val = <<>>
    /\ acc_val = <<0, 0>>
    /\ loss_val_mean = <<0, 0>>
    /\ pc_eval = "idle"

IdleDdg ==
    /\ ddg_data_in = <<>>
    /\ ddg_data_keys = <<>>
    /\ ddg_data_dict = <<>>
    /\ resenv_datasets_look_up = <<>>
    /\ ddg_pos = 1
    /\ resenvs_ddg_data = <<>>
    /\ n_datapoints_before = 0
    /\ n_datapoints_after = 0
    /\ pc_ddg = "idle"

InitTrain ==
    /\ IdleSplit
    /\ IdleEval
    /\ IdleDdg
    /\ EPOCHS \in 0..MaxEpochs
    /\ PATIENCE_CUTOFF \in 0..MaxCutoff
    /\ epoch = NoEpoch
    /\ loss_val = 0
    /\ val_losses = <<>>
    /\ current_best_epoch_idx = NoEpoch
    /\ current_best_loss_val = BestLossInit
    /\ patience = 0
    /\ epoch_idx_to_model_path = <<>>
    /\ saved_files = {}
    /\ early_stopped = FALSE
    /\ best_model_path = <<>>
    /\ pc = "for"

\* for epoch in range(EPOCHS): the train steps over every batch, then
\* _eval_loop, which yields this epoch's validation loss
RunEpoch ==
    /\ pc = "for"
    /\ Len(val_losses) < EPOCHS
    /\ \E l \in LossValues :
          /\ loss_val' = l
          /\ val_losses' = Append(val_losses, l)
    /\ epoch' = Len(val_losses)
    /\ pc' = "save"
    /\ UNCHANGED <<EPOCHS, PATIENCE_CUTOFF, current_best_epoch_idx,
                   current_best_loss_val, patience, epoch_idx_to_model_path,
                   saved_files, early_stopped, best_model_path,
                   splitVars, evalVars, ddgVars>>

\* # Save model
SaveModel ==
    /\ pc = "save"
    /\ epoch_idx_to_model_path' =
          RecordCheckpoint(epoch_idx_to_model_path, epoch, ModelPath(epoch))
    /\ saved_files' = saved_files \cup {ModelPath(epoch)}
    /\ pc' = "early_stopping"
    /\ UNCHANGED <<EPOCHS, PATIENCE_CUTOFF, epoch, loss_val, val_losses,
                   current_best_epoch_idx, current_best_loss_val, patience,
                   early_stopped, best_model_path, splitVars, evalVars, ddgVars>>

\* # Early stopping
EarlyStopping ==
    /\ pc = "early_stopping"
    /\ IF Improves(loss_val, current_best_loss_val)
       THEN /\ current_best_loss_val' = loss_val
            /\ current_best_epoch_idx' = epoch
            /\ patience' = 0
       ELSE /\ patience' = patience + 1
            /\ UNCHANGED <<current_best_loss_val, current_best_epoch_idx>>
    /\ IF PatienceExceeded(patience', PATIENCE_CUTOFF)
       THEN /\ early_stopped' = TRUE
            /\ pc' = "lookup"
       ELSE /\ early_stopped' = FALSE
            /\ pc' = "for"
    /\ UNCHANGED <<EPOCHS, PATIENCE_CUTOFF, epoch, loss_val, val_losses,
                   epoch_idx_to_model_path, saved_files, best_model_path,
                   splitVars, evalVars, ddgVars>>

\* range(EPOCHS) is exhausted
LoopExhausted ==
    /\ pc = "for"
    /\ Len(val_losses) >= EPOCHS
    /\ pc' = "lookup"
    /\ UNCHANGED <<EPOCHS, PATIENCE_CUTOFF, epoch, loss_val, val_losses,
                   current_best_epoch_idx, current_best_loss_val, patience,
                   epoch_idx_to_model_path, saved_files, early_stopped,
                   best_model_path, splitVars, evalVars, ddgVars>>

\* best_model_path = epoch_idx_to_model_path[current_best_epoch_idx]
ReturnBest ==
    /\ pc = "lookup"
    /\ LET r == DictLookup(epoch_idx_to_model_path, current_best_epoch_idx)
       IN  /\ best_model_path' = r.value
           /\ pc' = IF r.raised THEN "KeyError" ELSE "returned"
    /\ UNCHANGED <<EPOCHS, PATIENCE_CUTOFF, epoch, loss_val, val_losses,
                   current_best_epoch_idx, current_best_loss_val, patience,
                   epoch_idx_to_model_path, saved_files, early_stopped,
                   splitVars, evalVars, ddgVars>>

\* ------------------------------------------------------------------------
\* Properties of _train_loop
\* ------------------------------------------------------------------------
\* the loop and the final lookup are over
AfterLoop == pc \in {"lookup", "returned", "KeyError"}

Terminated == pc \in {"returned", "KeyError"}

\* number of epochs whose validation loss is known
EpochsRun == Len(val_losses)

\* val_losses is 1-indexed: val_losses[e + 1] is the loss of epoch index e
LossOf(e) == val_losses[e + 1]

\* the best loss the loop has to beat when epoch index e is judged
BestBefore(e) == Min({BestLossInit} \cup {LossOf(j) : j \in 0..(e - 1)})

StrictlyImproving(e) == LossOf(e) < BestBefore(e)

\* epochs whose early-stopping step is over
EpochsJudged == IF pc \in {"save", "early_stopping"} THEN EpochsRun - 1 ELSE EpochsRun

\* C1: when at least one epoch ran, _train_loop returns the checkpoint path
\* recorded for an epoch whose validation loss is the lowest among all the
\* epochs that ran.
C1_ReturnsBestCheckpoint ==
    (Terminated /\ EpochsRun >= 1) =>
        /\ pc = "returned"
        /\ \E e \in 0..(EpochsRun - 1) :
              /\ e \in DOMAIN epoch_idx_to_model_path
              /\ best_model_path = epoch_idx_to_model_path[e]
              /\ LossOf(e) = Min(Range(val_losses))

\* C2 (state part): the loop is left by the break exactly when patience
\* exceeds PATIENCE_CUTOFF; it is left with epochs of the budget unused
\* only by the break; it goes on to another epoch only with patience within
\* the cutoff; with a cutoff of 0 it stops right after its first
\* non-improving epoch.
C2_StopState ==
    /\ AfterLoop => (early_stopped <=> patience > PATIENCE_CUTOFF)
    /\ AfterLoop => (EpochsRun < EPOCHS => early_stopped)
    /\ pc = "for" => (~early_stopped /\ patience <= PATIENCE_CUTOFF)
    /\ early_stopped => AfterLoop
    /\ (AfterLoop /\ PATIENCE_CUTOFF = 0) =>
          /\ \A e \in 0..(EpochsRun - 2) : StrictlyImproving(e)
          /\ early_stopped <=> (EpochsRun >= 1 /\ ~StrictlyImproving(EpochsRun - 1))

\* C2 (step part): once early stopping has triggered, no further epoch is
\* run: no validation loss is produced and no checkpoint is recorded or saved.
C2_NoEpochAfterStop ==
    early_stopped =>
        /\ val_losses' = val_losses
        /\ epoch' = epoch
        /\ epoch_idx_to_model_path' = epoch_idx_to_model_path
        /\ saved_files' = saved_files
        /\ early_stopped'

\* C2: early stopping triggers exactly when patience > PATIENCE_CUTOFF, and
\* nothing of an epoch happens after it.
C2_EarlyStoppingExact == []C2_StopState /\ [][C2_NoEpochAfterStop]_vars

C2_Witness ==
    /\ pc = "returned"
    /\ early_stopped
    /\ EpochsRun < EPOCHS
    /\ PATIENCE_CUTOFF = 0
    /\ EpochsRun >= 2

\* C3 (state part): the best epoch's loss is current_best_loss_val and is no
\* higher than the loss of any strictly improving epoch seen so far.
C3_BestNotAboveImproving ==
    current_best_epoch_idx # NoEpoch =>
        /\ current_best_epoch_idx \in 0..(EpochsRun - 1)
        /\ LossOf(current_best_epoch_idx) = current_best_loss_val
        /\ \A e \in 0..(EpochsJudged - 1) :
              StrictlyImproving(e) => current_best_loss_val <= LossOf(e)

\* C3: current_best_loss_val never increases from one step to the next, and
\* the best epoch is never one with a loss above an earlier improving epoch.
C3_BestLossNonIncreasing ==
    /\ []C3_BestNotAboveImproving
    /\ [][current_best_loss_val' <= current_best_loss_val]_vars

C3_Witness ==
    /\ pc = "for"
    /\ EpochsRun >= 3
    /\ current_best_epoch_idx = 1
    /\ LossOf(2) > LossOf(1)
    /\ LossOf(0) > LossOf(1)

\* C4: with EPOCHS = 0 the best epoch stays -1, the checkpoint map stays
\* empty, nothing is saved, and the final lookup raises: no path is returned.
C4_ZeroEpochsLookupFails ==
    EPOCHS = 0 =>
        /\ current_best_epoch_idx = NoEpoch
        /\ DOMAIN epoch_idx_to_model_path = {}
        /\ saved_files = {}
        /\ pc # "returned"
        /\ best_model_path = <<>>
        /\ Terminated => pc = "KeyError"

C4_Witness == EPOCHS = 0 /\ pc = "KeyError"

\* the path the checkpoint of epoch index e (below 100) is to have
ExpectedPath(e) == <<"cavity_models/model_epoch_", e \div 10, e % 10, ".pt">>

\* C9 (state part): once the k-th epoch has saved its checkpoint the keys
\* of the map are exactly 0..k-1, each mapped to the path of its epoch
\* index; the best epoch, once set, is a key; so is the epoch that stops.
C9_MapState ==
    /\ DOMAIN epoch_idx_to_model_path =
          0..((IF pc = "save" THEN EpochsRun - 1 ELSE EpochsRun) - 1)
    /\ \A e \in DOMAIN epoch_idx_to_model_path :
          epoch_idx_to_model_path[e] = ExpectedPath(e)
    /\ saved_files = {ExpectedPath(e) : e \in DOMAIN epoch_idx_to_model_path}
    /\ current_best_epoch_idx # NoEpoch =>
          current_best_epoch_idx \in DOMAIN epoch_idx_to_model_path
    /\ early_stopped => epoch \in DOMAIN epoch_idx_to_model_path

\* C9 (step part): an entry once recorded is never changed or removed.
C9_EntriesKept ==
    \A e \in DOMAIN epoch_idx_to_model_path :
        /\ e \in DOMAIN epoch_idx_to_model_path'
        /\ epoch_idx_to_model_path'[e] = epoch_idx_to_model_path[e]

\* C9: the checkpoint map is append-only with one entry per epoch run.
C9_CheckpointMapAppendOnly == []C9_MapState /\ [][C9_EntriesKept]_vars

C9_Witness ==
    /\ pc = "returned"
    /\ early_stopped
    /\ EpochsRun >= 3
    /\ current_best_epoch_idx = 1
    /\ DOMAIN epoch_idx_to_model_path = 0..(EpochsRun - 1)

\* the earliest epoch among those with the lowest validation loss
EarliestLowest ==
    Min({e \in 0..(EpochsJudged - 1) :
            LossOf(e) = Min({LossOf(j) : j \in 0..(EpochsJudged - 1)})})

\* number of epochs judged after the last strictly improving one
RECURSIVE TrailingNonImproving(_)
TrailingNonImproving(k) ==
    IF k = 0 \/ StrictlyImproving(k - 1) THEN 0
    ELSE 1 + TrailingNonImproving(k - 1)

\* C10, update rule: best-loss changes only to a strictly lower loss, and
\* patience counts the epochs since the last strict improvement.
C10_StrictUpdate ==
    /\ current_best_loss_val = BestBefore(EpochsJudged)
    /\ patience = TrailingNonImproving(EpochsJudged)

\* C10, range of patience
C10_PatienceRange == 0 <= patience /\ patience <= PATIENCE_CUTOFF + 1

\* C10, ties: among the epochs tied for the lowest loss the earliest one is
\* the best epoch.
C10_EarliestTieIsBest ==
    EpochsJudged >= 1 => current_best_epoch_idx = EarliestLowest

\* C10: strict improvement alone updates best-loss/best-epoch and resets
\* patience, a tie increments patience, the earliest of the epochs tied for
\* the lowest loss is the best epoch, and 0 <= patience <= PATIENCE_CUTOFF+1.
C10_StrictImprovementAndTies ==
    C10_StrictUpdate /\ C10_PatienceRange /\ C10_EarliestTieIsBest

NextTrain == RunEpoch \/ SaveModel \/ EarlyStopping \/ LoopExhausted \/ ReturnBest

Spec == InitTrain /\ [][NextTrain]_vars

\* ------------------------------------------------------------------------
\* _train_val_split
\* ------------------------------------------------------------------------
PdbNames == {<<"pdb", i>> : i \in 1..MaxPdbs}

\* lists of distinct structure-file identifiers
PdbLists ==
    {l \in SeqsUpTo(PdbNames, MaxPdbs) :
        \A i, j \in DOMAIN l : i # j => l[i] # l[j]}

\* TRAIN_VAL_SPLIT = num / SplitDen, kept as its numerator
SplitFractions == (0 - MaxSplitNum)..MaxSplitNum

\* n_train_pdbs = int(len(parsed_pdb_filenames) * TRAIN_VAL_SPLIT)
NTrainPdbs(lst, num) == TruncDiv(Len(lst) * num, SplitDen)

\* the train group cut one identifier short
FilenamesTrainShort(lst, n) == SliceTo(lst, n - 1)

\* filenames_train = parsed_pdb_filenames[:n_train_pdbs]
FilenamesTrain(lst, n) == SliceTo(lst, n)

\* filenames_val = parsed_pdb_filenames[n_train_pdbs:]
FilenamesVal(lst, n) == SliceFrom(lst, n)

InitSplit ==
    /\ IdleTrain
    /\ IdleEval
    /\ IdleDdg
    /\ parsed_pdb_filenames \in PdbLists
    /\ TRAIN_VAL_SPLIT \in SplitFractions
    /\ n_train_pdbs = 0
    /\ filenames_train = <<>>
    /\ filenames_val = <<>>
    /\ pc_split = "call"

TrainValSplit ==
    /\ pc_split = "call"
    /\ n_train_pdbs' = NTrainPdbs(parsed_pdb_filenames, TRAIN_VAL_SPLIT)
    /\ filenames_train' = FilenamesTrain(parsed_pdb_filenames, n_train_pdbs')
    /\ filenames_val' = FilenamesVal(parsed_pdb_filenames, n_train_pdbs')
    /\ pc_split' = "returned"
    /\ UNCHANGED <<parsed_pdb_filenames, TRAIN_VAL_SPLIT, trainVars, evalVars,
                   ddgVars>>

NextSplit == TrainValSplit

SpecSplit == InitSplit /\ [][NextSplit]_vars

\* C6: the list is cut at one index: the train group is a prefix, the
\* validation group the remaining suffix, their lengths add up to the
\* length of the list, no identifier is in both groups and none is lost.
C6_SplitIsPartition ==
    pc_split = "returned" =>
        /\ Len(filenames_train) + Len(filenames_val) = Len(parsed_pdb_filenames)
        /\ filenames_train \o filenames_val = parsed_pdb_filenames
        /\ \E cut \in 0..Len(parsed_pdb_filenames) :
              /\ Len(filenames_train) = cut
              /\ \A i \in 1..cut :
                    filenames_train[i] = parsed_pdb_filenames[i]
              /\ \A i \in 1..(Len(parsed_pdb_filenames) - cut) :
                    filenames_val[i] = parsed_pdb_filenames[cut + i]
        /\ Range(filenames_train) \cap Range(filenames_val) = {}
        /\ Range(filenames_train) \cup Range(filenames_val)
              = Range(parsed_pdb_filenames)

C6_Witness ==
    /\ pc_split = "returned"
    /\ Len(parsed_pdb_filenames) = MaxPdbs
    /\ Len(filenames_train) >= 1
    /\ Len(filenames_val) >= 1
    /\ TRAIN_VAL_SPLIT < 0

\* ------------------------------------------------------------------------
\* _eval_loop
\* ------------------------------------------------------------------------
Classes == 0..MaxClass

\* per residue of the validation set, in order: the class of the one-hot
\* target (argmax of batch_y) and the class the model predicts (argmax of
\* batch_y_pred)
ValLabelSets == SeqsUpTo([true : Classes, pred : Classes], MaxResidues)

\* DataLoader(dataset_val, batch_size=BATCH_SIZE, shuffle=False,
\* drop_last=True): the complete batches, in order
RECURSIVE DataLoaderDropLast(_, _)
DataLoaderDropLast(data, size) ==
    IF Len(data) < size THEN <<>>
    ELSE <<SubSeq(data, 1, size)>>
            \o DataLoaderDropLast(SubSeq(data, size + 1, Len(data)), size)

\* np.mean(np.reshape(labels_true, -1) == np.reshape(labels_pred, -1)) as
\* <<number of equal positions, number of positions>>; <<0, 0>> is nan
MeanEqual(true_lists, pred_lists) ==
    LET t == Flatten(true_lists)
        q == Flatten(pred_lists)
    IN  <<Cardinality({i \in DOMAIN t : t[i] = q[i]}), Len(t)>>

\* np.mean(loss_batch_list) as <<sum, count>>
MeanOf(lst) == <<Sum(lst), Len(lst)>>

InitEval ==
    /\ IdleTrain
    /\ IdleSplit
    /\ IdleDdg
    /\ val_labels \in ValLabelSets
    /\ BATCH_SIZE \in 1..MaxBatch
    /\ batches_left = DataLoaderDropLast(val_labels, BATCH_SIZE)
    /\ labels_true_val = <<>>
    /\ labels_pred_val = <<>>
    /\ loss_batch_list_val = <<>>
    /\ acc_val = <<0, 0>>
    /\ loss_val_mean = <<0, 0>>
    /\ pc_eval = "for"

\* one iteration of: for batch_x_val, batch_y_val in dataloader_val
EvalBatch ==
    /\ pc_eval = "for"
    /\ batches_left # <<>>
    /\ LET batch == Head(batches_left)
       IN  /\ labels_true_val' =
                 Append(labels_true_val, [i \in DOMAIN batch |-> batch[i].true])
           /\ labels_pred_val' =
                 Append(labels_pred_val, [i \in DOMAIN batch |-> batch[i].pred])
    /\ \E l \in 1..MaxLoss :
          loss_batch_list_val' = Append(loss_batch_list_val, l)
    /\ batches_left' = Tail(batches_left)
    /\ UNCHANGED <<val_labels, BATCH_SIZE, acc_val, loss_val_mean, pc_eval,
                   trainVars, splitVars, ddgVars>>

\* the batch stream is exhausted: acc_val, loss_val and the return
EvalReturn ==
    /\ pc_eval = "for"
    /\ batches_left = <<>>
    /\ acc_val' = MeanEqual(labels_true_val, labels_pred_val)
    /\ loss_val_mean' = MeanOf(loss_batch_list_val)
    /\ pc_eval' = "returned"
    /\ UNCHANGED <<val_labels, BATCH_SIZE, batches_left, labels_true_val,
                   labels_pred_val, loss_batch_list_val, trainVars, splitVars, ddgVars>>

NextEval == EvalBatch \/ EvalReturn

SpecEval == InitEval /\ [][NextEval]_vars

\* the accuracy _eval_loop returns for the validation set under batch size b
EvalAccuracy(data, b) ==
    LET bs == DataLoaderDropLast(data, b)
    IN  MeanEqual([k \in DOMAIN bs |-> [i \in DOMAIN bs[k] |-> bs[k][i].true]],
                  [k \in DOMAIN bs |-> [i \in DOMAIN bs[k] |-> bs[k][i].pred]])

\* two accuracies, neither of them nan, are the same number
SameAccuracy(a, b) == a[2] > 0 /\ b[2] > 0 /\ a[1] * b[2] = b[1] * a[2]

\* batch sizes under which at least one batch of the data is evaluated
UsableBatchSizes(data) == {b \in 1..MaxBatch : b <= Len(data)}

\* C7, first half: the accuracy is correct / total over all the residues of
\* the batches evaluated, flattened.
C7_MicroAverage ==
    pc_eval = "returned" =>
        LET seen == Flatten(DataLoaderDropLast(val_labels, BATCH_SIZE))
        IN  acc_val = <<Cardinality({i \in DOMAIN seen : seen[i].true = seen[i].pred}),
                        Len(seen)>>

\* C7, second half: the accuracy does not depend on the batch size.
C7_BatchSizeInvariant ==
    (pc_eval = "returned" /\ BATCH_SIZE \in UsableBatchSizes(val_labels)) =>
        \A b \in UsableBatchSizes(val_labels) :
            SameAccuracy(acc_val, EvalAccuracy(val_labels, b))

\* C7: the accuracy _eval_loop returns is the micro-average over the
\* validation stream and is the same for every batch size (the loader
\* dropping the last incomplete batch throughout).
C7_AccuracyMicroAndBatchInvariant == C7_MicroAverage /\ C7_BatchSizeInvariant

\* ------------------------------------------------------------------------
\* _populate_dfs_with_resenvs
\* ------------------------------------------------------------------------
Symmetric == <<"s", "y", "m", "m", "e", "t", "r", "i", "c">>
SymmetricDirect == Symmetric \o <<"_", "d", "i", "r", "e", "c", "t">>
Dms == <<"d", "m", "s">>

\* np.nan in the column of measured values
NaN == "nan"

\* cells of the column "resenv": an environment of a lookup, np.nan, or
\* nothing as long as the table has no such column
Resenv(name, key) == [kind |-> "resenv", dataset |-> name, key |-> key]
ResenvNaN == [kind |-> "nan", dataset |-> <<>>, key |-> <<>>]
NoResenvColumn == [kind |-> "no column", dataset |-> <<>>, key |-> <<>>]

\* cells of the columns "wt_idx" and "mt_idx": <<index>>, or <<>> as long as
\* the table has no such column
NoColumn == <<>>

\* Bio.PDB.Polypeptide.one_to_index: the index of a letter in the
\* alphabet of the 20 standard amino acids; any other letter raises
AminoAcids == <<"A", "C", "D", "E", "F", "G", "H", "I", "K", "L",
                "M", "N", "P", "Q", "R", "S", "T", "V", "W", "Y">>

OneToIndex(letter) ==
    IF \E i \in DOMAIN AminoAcids : AminoAcids[i] = letter
    THEN [raised |-> FALSE,
          value |-> <<(CHOOSE i \in DOMAIN AminoAcids : AminoAcids[i] = letter) - 1>>]
    ELSE [raised |-> TRUE, value |-> NoColumn]

\* mutation strings <wt><position><mt>
Variants == {<<"A", "1", "2", "G">>, <<"Y", "5", "A">>}

\* mutation strings with a letter that is no standard amino acid
OddVariants == {<<"A", "1", "2", "X">>, <<"X", "1", "2", "A">>}

\* rows of a mutation table as read: the three columns the function uses
\* and a measured value, which may be missing (NaN)
InputRows ==
    [pdbid : {<<"1", "A", "B", "C">>}, chainid : {<<"A">>},
     variant : Variants, ddg : {"1.0", NaN}]
    \cup [pdbid : {<<"1", "A", "B", "C">>}, chainid : {<<"A">>},
          variant : OddVariants, ddg : {"1.0"}]

\* row of a DataFrame: idx is its index label
TableOf(rows) ==
    [i \in DOMAIN rows |->
        [idx |-> i - 1, pdbid |-> rows[i].pdbid, chainid |-> rows[i].chainid,
         variant |-> rows[i].variant, ddg |-> rows[i].ddg,
         resenv |-> NoResenvColumn, wt_idx |-> NoColumn, mt_idx |-> NoColumn]]

\* f"{row['pdbid']}{row['chainid']}_{row['variant'][1:-1]}{row['variant'][0]}"
ResenvKey(row) ==
    row.pdbid \o row.chainid \o <<"_">> \o Slice(row.variant, 1, -1)
        \o <<row.variant[1]>>

ResenvKeys == {ResenvKey(r) : r \in InputRows}

\* the override applied only to the key that is exactly "symmetric"
DdgDataKeyAdhocFixEquality(ddg_data_key) ==
    IF ddg_data_key = Symmetric THEN Symmetric ELSE ddg_data_key

\* if "symmetric" in ddg_data_key: ddg_data_key_adhoc_fix = "symmetric"
DdgDataKeyAdhocFix(ddg_data_key) ==
    IF IsSubstring(Symmetric, ddg_data_key) THEN Symmetric ELSE ddg_data_key

\* resenv_datasets_look_up[ddg_data_key_adhoc_fix][resenv_key] inside
\* try/except KeyError: the environment, or np.nan when either key is missing
MatchResenv(look_up, ddg_data_key, row) ==
    LET name == DdgDataKeyAdhocFix(ddg_data_key)
        key == ResenvKey(row)
    IN  IF name \in DOMAIN look_up /\ key \in look_up[name]
        THEN Resenv(name, key)
        ELSE ResenvNaN

\* DataFrame.dropna(): a row with a missing value in any column is dropped
\* (pdbid, chainid and variant are text in every row: the key is built of them)
HasNa(row) == row.ddg = NaN \/ row.resenv = ResenvNaN

RECURSIVE DropNa(_)
DropNa(table) ==
    IF table = <<>> THEN <<>>
    ELSE (IF HasNa(Head(table)) THEN <<>> ELSE <<Head(table)>>)
            \o DropNa(Tail(table))

\* ordered keys of ddg_data_dict, and the tables under them
DdgKeyLists == {<<Dms>>, <<SymmetricDirect>>, <<Dms, SymmetricDirect>>}

DdgInputs(keys) ==
    {d \in [Range(keys) -> SeqsUpTo(InputRows, MaxRows)] :
        Sum([i \in DOMAIN keys |-> Len(d[keys[i]])]) <= MaxRows}

\* the lookups: per lookup name, the keys that have an environment
LookupDomains == {{Dms, Symmetric}, {Symmetric, SymmetricDirect}}

LookUps == UNION {[D -> SUBSET ResenvKeys] : D \in LookupDomains}

InitDdg ==
    /\ IdleTrain
    /\ IdleSplit
    /\ IdleEval
    /\ ddg_data_keys \in DdgKeyLists
    /\ ddg_data_in \in DdgInputs(ddg_data_keys)
    /\ ddg_data_dict = [k \in DOMAIN ddg_data_in |-> TableOf(ddg_data_in[k])]
    /\ resenv_datasets_look_up \in LookUps
    /\ ddg_pos = 1
    /\ resenvs_ddg_data = <<>>
    /\ n_datapoints_before = 0
    /\ n_datapoints_after = 0
    /\ pc_ddg = "for"

\* for ddg_data_key in ddg_data_dict.keys(): the matching of every row,
\* the new column "resenv" and dropna
MatchResenvs ==
    /\ pc_ddg = "for"
    /\ ddg_pos <= Len(ddg_data_keys)
    /\ LET ddg_data_key == ddg_data_keys[ddg_pos]
           df == ddg_data_dict[ddg_data_key]
           matched == [i \in DOMAIN df |->
                          MatchResenv(resenv_datasets_look_up, ddg_data_key, df[i])]
           with_col == [i \in DOMAIN df |-> [df[i] EXCEPT !.resenv = matched[i]]]
           dropped == DropNa(with_col)
       IN  /\ resenvs_ddg_data' = matched
           /\ n_datapoints_before' = Len(with_col)
           /\ n_datapoints_after' = Len(dropped)
           /\ ddg_data_dict' = [ddg_data_dict EXCEPT ![ddg_data_key] = dropped]
    /\ pc_ddg' = "add_idxs"
    /\ UNCHANGED <<ddg_data_in, ddg_data_keys, resenv_datasets_look_up, ddg_pos,
                   trainVars, splitVars, evalVars>>

\* # Add wt and mt idxs to df. DataFrame.apply(axis=1) of a table without
\* rows yields a table, not a column, and assigning it to one column
\* raises ValueError; one_to_index raises KeyError for a letter that is no
\* standard amino acid. Neither is caught.
AddIdxs ==
    /\ pc_ddg = "add_idxs"
    /\ LET ddg_data_key == ddg_data_keys[ddg_pos]
           df == ddg_data_dict[ddg_data_key]
           wt == [i \in DOMAIN df |-> OneToIndex(df[i].variant[1])]
           mt == [i \in DOMAIN df |-> OneToIndex(df[i].variant[Len(df[i].variant)])]
           with_wt == [i \in DOMAIN df |-> [df[i] EXCEPT !.wt_idx = wt[i].value]]
           with_mt == [i \in DOMAIN df |-> [with_wt[i] EXCEPT !.mt_idx = mt[i].value]]
       IN  IF df = <<>>
           THEN /\ pc_ddg' = "ValueError"
                /\ UNCHANGED <<ddg_data_dict, ddg_pos>>
           ELSE IF \E i \in DOMAIN df : wt[i].raised
           THEN /\ pc_ddg' = "KeyError"
                /\ UNCHANGED <<ddg_data_dict, ddg_pos>>
           ELSE IF \E i \in DOMAIN df : mt[i].raised
           THEN /\ pc_ddg' = "KeyError"
                /\ ddg_data_dict' = [ddg_data_dict EXCEPT ![ddg_data_key] = with_wt]
                /\ UNCHANGED ddg_pos
           ELSE /\ pc_ddg' = "for"
                /\ ddg_data_dict' = [ddg_data_dict EXCEPT ![ddg_data_key] = with_mt]
                /\ ddg_pos' = ddg_pos + 1
    /\ UNCHANGED <<ddg_data_in, ddg_data_keys, resenv_datasets_look_up,
                   resenvs_ddg_data, n_datapoints_before, n_datapoints_after,
                   trainVars, splitVars, evalVars>>

\* the keys are exhausted: the function returns
PopulateReturn ==
    /\ pc_ddg = "for"
    /\ ddg_pos > Len(ddg_data_keys)
    /\ pc_ddg' = "returned"
    /\ UNCHANGED <<ddg_data_in, ddg_data_keys, ddg_data_dict,
                   resenv_datasets_look_up, ddg_pos, resenvs_ddg_data,
                   n_datapoints_before, n_datapoints_after,
                   trainVars, splitVars, evalVars>>

NextDdg == MatchResenvs \/ AddIdxs \/ PopulateReturn

SpecDdg == InitDdg /\ [][NextDdg]_vars

\* ------------------------------------------------------------------------
\* Properties of _populate_dfs_with_resenvs
\* ------------------------------------------------------------------------
\* the lookup a dataset is to be matched against
ExpectedLookupName(name) ==
    IF name \in {Symmetric, SymmetricDirect} THEN Symmetric ELSE name

\* the row of dataset name has no environment in that lookup
LookupMiss(name, row) ==
    ~(/\ ExpectedLookupName(name) \in DOMAIN resenv_datasets_look_up
      /\ ResenvKey(row) \in resenv_datasets_look_up[ExpectedLookupName(name)])

Misses(name) ==
    {i \in DOMAIN ddg_data_in[name] : LookupMiss(name, ddg_data_in[name][i])}

IndexCells == {<<i>> : i \in 0..19}

\* C5: after the function has returned, a table of N rows of which K had a
\* lookup miss has exactly N-K rows, none of them without environment, and
\* every wt_idx and mt_idx is in [0,19].
C5_DropsExactlyTheMisses ==
    pc_ddg = "returned" =>
        \A name \in Range(ddg_data_keys) :
            /\ Len(ddg_data_dict[name])
                  = Len(ddg_data_in[name]) - Cardinality(Misses(name))
            /\ \A i \in DOMAIN ddg_data_dict[name] :
                  /\ ddg_data_dict[name][i].resenv.kind = "resenv"
                  /\ ddg_data_dict[name][i].wt_idx \in IndexCells
                  /\ ddg_data_dict[name][i].mt_idx \in IndexCells

\* datasets whose rows have been matched
MatchedDatasets ==
    {ddg_data_keys[i] : i \in {j \in DOMAIN ddg_data_keys :
        j < ddg_pos \/ (j = ddg_pos /\ pc_ddg \in {"add_idxs", "ValueError", "KeyError"})}}

\* C8 (state part): the rows of a dataset named "...symmetric..." are
\* matched against the lookup "symmetric", those of any other dataset
\* against the lookup of its own name; a row whose key is missing there is
\* marked np.nan and dropped.
C8_MatchState ==
    /\ pc_ddg = "add_idxs" =>
          LET name == ddg_data_keys[ddg_pos]
              rows == ddg_data_in[name]
          IN  /\ Len(resenvs_ddg_data) = Len(rows)
              /\ \A i \in DOMAIN rows :
                    resenvs_ddg_data[i] =
                        IF LookupMiss(name, rows[i]) THEN ResenvNaN
                        ELSE Resenv(ExpectedLookupName(name), ResenvKey(rows[i]))
    /\ \A name \in MatchedDatasets :
          /\ \A i \in DOMAIN ddg_data_dict[name] :
                LET r == ddg_data_dict[name][i]
                IN  /\ ~LookupMiss(name, ddg_data_in[name][r.idx + 1])
                    /\ r.resenv = Resenv(ExpectedLookupName(name), ResenvKey(r))
          /\ \A i \in Misses(name) :
                \A j \in DOMAIN ddg_data_dict[name] :
                    ddg_data_dict[name][j].idx # i - 1

\* C8 (step part): matching a dataset never ends in an error
C8_MissIsNoError ==
    (pc_ddg = "for" /\ ddg_pos <= Len(ddg_data_keys)) =>
        pc_ddg' \in {"for", "add_idxs"}

\* C8: "symmetric" datasets use the shared lookup "symmetric", the others
\* the lookup of their own name, and a missing key is a miss, not an error.
C8_SymmetricLookupAndMisses == []C8_MatchState /\ [][C8_MissIsNoError]_vars

C8_Witness ==
    /\ pc_ddg = "add_idxs"
    /\ ddg_data_keys[ddg_pos] = SymmetricDirect
    /\ SymmetricDirect \in DOMAIN resenv_datasets_look_up
    /\ \E i, j \in DOMAIN resenvs_ddg_data :
          /\ resenvs_ddg_data[i].kind = "resenv"
          /\ resenvs_ddg_data[i].key \notin resenv_datasets_look_up[SymmetricDirect]
          /\ resenvs_ddg_data[j] = ResenvNaN
          /\ ResenvKey(ddg_data_in[SymmetricDirect][j])
                \in resenv_datasets_look_up[SymmetricDirect]
    /\ Len(ddg_data_dict[SymmetricDirect]) = 1

\* rows that are gone after dropna: the misses and the rows without a
\* measured value
DdgDroppedRows(name) ==
    Misses(name) \cup {i \in DOMAIN ddg_data_in[name] : ddg_data_in[name][i].ddg = NaN}

\* what the function does keep: the rows with an environment and with no
\* missing value in any other column
DdgRowsKept ==
    pc_ddg = "returned" =>
        \A name \in Range(ddg_data_keys) :
            Len(ddg_data_dict[name])
                = Len(ddg_data_in[name]) - Cardinality(DdgDroppedRows(name))

====
